---- MODULE Spec2Model ----
(***************************************************************************)
(* Browser Tool API: the BrowserTool automation session                    *)
(* (src/app/browser_tool.py) and the FastAPI layer that builds one         *)
(* BrowserTool per request and closes it afterwards (src/app/main.py).     *)
(*                                                                         *)
(* Four specifications share the variables:                                *)
(*   Spec        the HTTP layer: concurrent requests, each going through   *)
(*               get_browser_tool (construct), its handler and the         *)
(*               dependency's finally block (close);                       *)
(*   SpecTool    one BrowserTool object whose methods are called in any    *)
(*               order;                                                    *)
(*   SpecSearch  one search on a new object, with max_results and the      *)
(*               search service's answer drawn from the full sets;         *)
(*   SpecPage    one navigate or extract_content on a new object, with     *)
(*               the url, the selector and the page's behaviour drawn      *)
(*               from the full sets.                                       *)
(*                                                                         *)
(* An operation's outcome is passed on as an operator argument (the        *)
(* ...AfterSetup operators) or bound by \E over a singleton, so that each  *)
(* outcome is written once.                                                *)
(***************************************************************************)
EXTENDS Integers, Sequences, FiniteSets, TLC

\* ------------------------------------------------------------------ bounds
NumReqs == 2          \* requests in flight together (Spec)
MaxLen == 3           \* longest result list the search service answers with
MaxResults == 3       \* largest max_results a caller asks for

\* ------------------------------------------------------- program constants
DefaultMaxResults == 10
DefaultMaxTokens == 200
DefaultWaitTime == 10

Reqs == 1 .. NumReqs

\* ------------------------------------------------------------ Python values
None == <<>>            \* a handle attribute that is None
NoneStr == "<None>"     \* an Optional[str] field that is None
NoKey == "<no key>"     \* a key absent from a JSON object
Null == "<null>"        \* a JSON null

\* Optional[int]: <<>> is None, <<n>> is the integer n
IntOpt(n) == <<n>>

\* Python truthiness of an Optional[str] / JSON string value
Truthy(v) == v \notin {NoneStr, Null, ""}

\* `x or d` for an Optional[int]
OrDefault(opt, d) == IF opt = None THEN d ELSE IF opt[1] = 0 THEN d ELSE opt[1]

\* dict.get(key, '') on one result object of the service's JSON
Get(result, key) == IF result[key] = NoKey THEN "" ELSE result[key]

\* list[:m + 1]: the slice taken one element too far
PySliceToInclusive(s, m) ==
  LET n == Len(s)
      stop == IF m + 1 >= 0 THEN (IF m + 1 < n THEN m + 1 ELSE n)
              ELSE (IF n + m + 1 > 0 THEN n + m + 1 ELSE 0)
  IN SubSeq(s, 1, stop)

\* list[:m] with Python's slice semantics (a negative m counts from the end)
PySliceTo(s, m) ==
  LET n == Len(s)
      stop == IF m >= 0 THEN (IF m < n THEN m ELSE n)
              ELSE (IF n + m > 0 THEN n + m ELSE 0)
  IN SubSeq(s, 1, stop)

\* ---------------------------------------------------------------- exceptions
NoExc == [type |-> "none", status |-> 0, detail |-> "", arg |-> ""]
Raise(detail, arg) == [type |-> "Exception", status |-> 0, detail |-> detail, arg |-> arg]
HTTPException(status, detail, arg) ==
  [type |-> "HTTPException", status |-> status, detail |-> detail, arg |-> arg]

\* the outcome of one method call: the object afterwards, the exception raised
\* (NoExc when it returned), the value returned, and the driver calls it issued
Outcome(c, exc, val, tr) == [c |-> c, exc |-> exc, val |-> val, tr |-> tr]

\* --------------------------------------------------------------- BrowserTool
\* The object's attributes are playwright, browser, page and llm.  drv, brw and
\* pg are the external resources behind the handles ("none" before they exist),
\* started/launched/pages count the resources acquired, and users is the set of
\* requests that issued a command on one of the handles.
BrowserToolInit(o, llmAvailable) ==
  [id |-> o,
   playwright |-> None, browser |-> None, page |-> None,
   llm |-> llmAvailable,
   drv |-> "none", brw |-> "none", pg |-> "none",
   started |-> 0, launched |-> 0, pages |-> 0,
   users |-> {}]

Handle(c, kind) == <<c.id, kind>>

\* the environment of one _setup_browser call: whether each awaited call,
\* if it is made, succeeds (at most one of them fails: the first failure ends
\* the call)
SetupEnv(start, launch, newpage) == [start |-> start, launch |-> launch, newpage |-> newpage]
SetupEnvs ==
  { SetupEnv(TRUE, TRUE, TRUE), SetupEnv(FALSE, TRUE, TRUE),
    SetupEnv(TRUE, FALSE, TRUE), SetupEnv(TRUE, TRUE, FALSE) }

\* lines 27-28 without the `is None` test: the driver is started on every call
StartDriverAlways(o, r, e) ==
  IF o.exc # NoExc THEN o
  ELSE IF e.start
       THEN Outcome([o.c EXCEPT !.playwright = Handle(o.c, "driver"), !.drv = "running",
                                !.started = @ + 1, !.users = @ \cup {r}],
                    NoExc, None, Append(o.tr, "start"))
       ELSE Outcome(o.c, Raise("driver start failed", ""), None, Append(o.tr, "start"))

\* lines 27-28: if self.playwright is None: self.playwright = await async_playwright().start()
StartDriver(o, r, e) ==
  IF o.exc # NoExc \/ o.c.playwright # None THEN o
  ELSE IF e.start
       THEN Outcome([o.c EXCEPT !.playwright = Handle(o.c, "driver"), !.drv = "running",
                                !.started = @ + 1, !.users = @ \cup {r}],
                    NoExc, None, Append(o.tr, "start"))
       ELSE Outcome(o.c, Raise("driver start failed", ""), None, Append(o.tr, "start"))

\* lines 29-30: if self.browser is None: self.browser = await self.playwright.chromium.launch(...)
LaunchBrowser(o, r, e) ==
  IF o.exc # NoExc \/ o.c.browser # None THEN o
  ELSE IF e.launch /\ o.c.drv = "running"
       THEN Outcome([o.c EXCEPT !.browser = Handle(o.c, "browser"), !.brw = "open",
                                !.launched = @ + 1, !.users = @ \cup {r}],
                    NoExc, None, Append(o.tr, "launch"))
       ELSE Outcome([o.c EXCEPT !.users = @ \cup {r}],
                    Raise("browser launch failed", ""), None, Append(o.tr, "launch"))

\* lines 31-32: if self.page is None: self.page = await self.browser.new_page()
NewPage(o, r, e) ==
  IF o.exc # NoExc \/ o.c.page # None THEN o
  ELSE IF e.newpage /\ o.c.brw = "open"
       THEN Outcome([o.c EXCEPT !.page = Handle(o.c, "page"), !.pg = "open",
                                !.pages = @ + 1, !.users = @ \cup {r}],
                    NoExc, None, Append(o.tr, "new_page"))
       ELSE Outcome([o.c EXCEPT !.users = @ \cup {r}],
                    Raise("new_page failed", ""), None, Append(o.tr, "new_page"))

\* _setup_browser that returns at once when the driver is already there
SetupBrowserDriverOnly(c, r, e) ==
  IF c.playwright # None THEN Outcome(c, NoExc, None, <<"_setup_browser">>)
  ELSE NewPage(LaunchBrowser(StartDriver(Outcome(c, NoExc, None, <<"_setup_browser">>), r, e), r, e), r, e)

\* BrowserTool._setup_browser, called by request r
SetupBrowser(c, r, e) ==
  NewPage(LaunchBrowser(StartDriver(Outcome(c, NoExc, None, <<"_setup_browser">>), r, e), r, e), r, e)

\* lines 127-128: if self.browser: await self.browser.close().  Closing the
\* browser closes its pages.
CloseBrowser(c, r) ==
  IF c.browser # None
  THEN Outcome([c EXCEPT !.brw = "closed",
                         !.pg = IF c.pg = "none" THEN "none" ELSE "closed",
                         !.users = @ \cup {r}],
               NoExc, None, <<"close", "browser.close">>)
  ELSE Outcome(c, NoExc, None, <<"close">>)

\* lines 129-130: if self.playwright: await self.playwright.stop()
StopDriver(b, r) ==
  IF b.c.playwright # None
  THEN Outcome([b.c EXCEPT !.drv = "stopped", !.users = @ \cup {r}],
               NoExc, None, Append(b.tr, "playwright.stop"))
  ELSE b

\* close() with the driver's stop nested under the browser check
CloseNested(c, r) ==
  IF c.browser # None THEN StopDriver(CloseBrowser(c, r), r) ELSE CloseBrowser(c, r)

\* close() with its two statements in the order of acquisition: the driver is
\* stopped first, the browser closed after it
CloseDriverFirst(c, r) ==
  IF c.playwright # None /\ c.browser # None
  THEN Outcome([c EXCEPT !.drv = "stopped", !.brw = "closed",
                         !.pg = IF c.pg = "none" THEN "none" ELSE "closed",
                         !.users = @ \cup {r}],
               NoExc, None, <<"close", "playwright.stop", "browser.close">>)
  ELSE StopDriver(CloseBrowser(c, r), r)

\* BrowserTool.close, called by request r.  The release calls themselves are
\* taken to complete.
Close(c, r) == StopDriver(CloseBrowser(c, r), r)

\* ------------------------------------------------------ the search service
\* One result object of the service's JSON: each key is a string, Null or NoKey.
ResultObj(t, u, c) == [title |-> t, url |-> u, content |-> c]

ResultObjs ==
  { ResultObj("a", "http://a", "about a"),
    ResultObj("b", "http://b", NoKey),
    ResultObj("", "http://c", "no title"),
    ResultObj(NoKey, "http://d", "title missing"),
    ResultObj("e", "", "no url"),
    ResultObj("f", Null, NoKey) }

RECURSIVE SeqsUpTo(_, _)
SeqsUpTo(S, n) ==
  IF n = 0 THEN { <<>> }
  ELSE LET shorter == SeqsUpTo(S, n - 1)
       IN shorter \cup { Append(s, x) : s \in { t \in shorter : Len(t) = n - 1 }, x \in S }

\* What the page shows after page.goto(search_url): goto raises, returns no
\* response or a response with a status; page.content() raises or not; the
\* document has a <pre> or not; its text is not JSON, is JSON that is not an
\* object, an object without "results", with "results": null, or with a list.
SvcAnswer(goto, status, content, pre, json, results) ==
  [goto |-> goto, status |-> status, content |-> content, pre |-> pre,
   json |-> json, results |-> results]

SvcOk(results) == SvcAnswer("resp", 200, "ok", TRUE, "list", results)

SvcFailures ==
  { SvcAnswer("raise", 0, "ok", FALSE, "bad", <<>>),      \* transport error
    SvcAnswer("none", 0, "ok", FALSE, "bad", <<>>),       \* goto returned None
    SvcAnswer("resp", 404, "ok", FALSE, "bad", <<>>),     \* non-200 status
    SvcAnswer("resp", 500, "ok", TRUE, "list", <<ResultObj("a", "http://a", "about a")>>),
    SvcAnswer("resp", 200, "raise", TRUE, "list", <<>>),  \* page.content() raises
    SvcAnswer("resp", 200, "ok", FALSE, "bad", <<>>),     \* no <pre> in the page
    SvcAnswer("resp", 200, "ok", TRUE, "bad", <<>>),      \* json.loads raises
    SvcAnswer("resp", 200, "ok", TRUE, "notdict", <<>>),  \* data.get raises
    SvcAnswer("resp", 200, "ok", TRUE, "null", <<>>) }    \* None[:max_results] raises

SvcNoResultsKey == SvcAnswer("resp", 200, "ok", TRUE, "nokey", <<>>)

\* the environment of one method call
Env(setup, svc, goto, selector, content, llmOk) ==
  [start |-> setup.start, launch |-> setup.launch, newpage |-> setup.newpage,
   svc |-> svc, goto |-> goto, selector |-> selector, content |-> content,
   llmOk |-> llmOk]

\* the loop with results.insert(0, ...) in place of results.append(...)
RECURSIVE CollectResultsReversed(_)
CollectResultsReversed(rs) ==
  IF rs = <<>> THEN <<>>
  ELSE LET result == Head(rs)
           rest == CollectResultsReversed(Tail(rs))
       IN IF Truthy(Get(result, "title")) /\ Truthy(Get(result, "url"))
          THEN rest \o <<[title |-> Get(result, "title"), url |-> Get(result, "url"),
                          snippet |-> Get(result, "content")]>>
          ELSE rest

\* the loop with `if title:` in place of `if title and url:`
RECURSIVE CollectResultsTitleOnly(_)
CollectResultsTitleOnly(rs) ==
  IF rs = <<>> THEN <<>>
  ELSE LET result == Head(rs)
           rest == CollectResultsTitleOnly(Tail(rs))
       IN IF Truthy(Get(result, "title"))
          THEN <<[title |-> Get(result, "title"), url |-> Get(result, "url"),
                  snippet |-> Get(result, "content")]>> \o rest
          ELSE rest

\* lines 63-80: the loop over search_results[:max_results]
RECURSIVE CollectResults(_)
CollectResults(rs) ==
  IF rs = <<>> THEN <<>>
  ELSE LET result == Head(rs)
           title == Get(result, "title")
           url == Get(result, "url")
           content_snippet == Get(result, "content")
           rest == CollectResults(Tail(rs))
       IN IF Truthy(title) /\ Truthy(url)
          THEN <<[title |-> title, url |-> url, snippet |-> content_snippet]>> \o rest
          ELSE rest

SearchResults(search_results, max_results) ==
  CollectResults(PySliceTo(search_results, max_results))

\* web_search without its try/except: a failure of the search call is raised
SearchBodyNoCatch(c, r, max_results, svc, tr) ==
  LET c1 == [c EXCEPT !.users = @ \cup {r}]
      t1 == Append(tr, "goto")
      t2 == Append(t1, "content")
  IN IF c.pg # "open" \/ svc.goto = "raise" THEN Outcome(c1, Raise("goto failed", ""), None, t1)
     ELSE IF svc.goto = "none" \/ svc.status # 200 THEN Outcome(c1, NoExc, <<>>, t1)
     ELSE IF svc.content = "raise" THEN Outcome(c1, Raise("content failed", ""), None, t2)
     ELSE IF ~svc.pre THEN Outcome(c1, NoExc, <<>>, t2)
     ELSE IF svc.json \in {"bad", "notdict", "null"} THEN Outcome(c1, Raise("bad body", ""), None, t2)
     ELSE IF svc.json = "nokey" THEN Outcome(c1, NoExc, SearchResults(<<>>, max_results), t2)
     ELSE Outcome(c1, NoExc, SearchResults(svc.results, max_results), t2)

\* lines 46-87: the try block of web_search, on an object whose setup returned
SearchBody(c, r, max_results, svc, tr) ==
  LET c1 == [c EXCEPT !.users = @ \cup {r}]
      t1 == Append(tr, "goto")
      t2 == Append(t1, "content")
  IN IF c.pg # "open" \/ svc.goto = "raise" THEN Outcome(c1, NoExc, <<>>, t1)
     ELSE IF svc.goto = "none" \/ svc.status # 200 THEN Outcome(c1, NoExc, <<>>, t1)
     ELSE IF svc.content = "raise" THEN Outcome(c1, NoExc, <<>>, t2)
     ELSE IF ~svc.pre THEN Outcome(c1, NoExc, <<>>, t2)
     ELSE IF svc.json \in {"bad", "notdict", "null"} THEN Outcome(c1, NoExc, <<>>, t2)
     ELSE IF svc.json = "nokey" THEN Outcome(c1, NoExc, SearchResults(<<>>, max_results), t2)
     ELSE Outcome(c1, NoExc, SearchResults(svc.results, max_results), t2)

\* web_search with _setup_browser inside its try block: a failed setup is
\* logged and answered with the empty list
SearchAfterSetupCaught(s, r, max_results, svc) ==
  IF s.exc # NoExc THEN Outcome(s.c, NoExc, <<>>, <<"web_search">> \o s.tr)
  ELSE SearchBody(s.c, r, max_results, svc, <<"web_search">> \o s.tr)

\* lines 36-87: web_search once _setup_browser has ended with outcome s
SearchAfterSetup(s, r, max_results, svc) ==
  IF s.exc # NoExc THEN Outcome(s.c, s.exc, None, <<"web_search">> \o s.tr)
  ELSE SearchBody(s.c, r, max_results, svc, <<"web_search">> \o s.tr)

\* BrowserTool.web_search
WebSearch(c, r, query, max_results, e) ==
  SearchAfterSetup(SetupBrowser(c, r, e), r, max_results, e.svc)

\* navigate with `except Exception: pass` around wait_for_selector
NavigateAfterSetupNoRaise(s, r, url, wait_for_element, wait_time, e) ==
  LET c1 == [s.c EXCEPT !.users = @ \cup {r}]
      t0 == <<"navigate">> \o s.tr
      t1 == Append(t0, "goto")
      t2 == Append(t1, "wait_for_selector")
  IN IF s.exc # NoExc THEN Outcome(s.c, s.exc, None, t0)
     ELSE IF s.c.pg # "open" \/ ~e.goto THEN Outcome(c1, Raise("goto failed", url), None, t1)
     ELSE IF ~Truthy(wait_for_element) THEN Outcome(c1, NoExc, None, t1)
     ELSE Outcome(c1, NoExc, None, t2)

\* lines 91-97: navigate once _setup_browser has ended with outcome s
NavigateAfterSetup(s, r, url, wait_for_element, wait_time, e) ==
  LET c1 == [s.c EXCEPT !.users = @ \cup {r}]
      t0 == <<"navigate">> \o s.tr
      t1 == Append(t0, "goto")
      t2 == Append(t1, "wait_for_selector")
  IN IF s.exc # NoExc THEN Outcome(s.c, s.exc, None, t0)
     ELSE IF s.c.pg # "open" \/ ~e.goto THEN Outcome(c1, Raise("goto failed", url), None, t1)
     ELSE IF ~Truthy(wait_for_element) THEN Outcome(c1, NoExc, None, t1)
     ELSE IF e.selector THEN Outcome(c1, NoExc, None, t2)
     ELSE Outcome(c1, Raise("Element not found on page", wait_for_element), None, t2)

\* BrowserTool.navigate
Navigate(c, r, url, wait_for_element, wait_time, e) ==
  NavigateAfterSetup(SetupBrowser(c, r, e), r, url, wait_for_element, wait_time, e)

\* lines 104-110: extract_content once navigate (outcome n) has returned and
\* _setup_browser has ended with outcome s
ExtractAfterSetup(n, s, r, e) ==
  LET t1 == (<<"extract_content">> \o n.tr) \o s.tr
      t2 == Append(t1, "content")
      c1 == [s.c EXCEPT !.users = @ \cup {r}]
  IN IF s.exc # NoExc THEN Outcome(s.c, s.exc, None, t1)
     ELSE IF s.c.pg # "open" \/ ~e.content THEN Outcome(c1, Raise("content failed", ""), None, t2)
     ELSE Outcome(c1, NoExc, "text of the page", t2)

\* lines 100-103: extract_content once its navigate, if any, has ended with
\* outcome n
ExtractAfterNavigate(n, r, e) ==
  IF n.exc # NoExc THEN Outcome(n.c, n.exc, None, <<"extract_content">> \o n.tr)
  ELSE ExtractAfterSetup(n, SetupBrowser(n.c, r, e), r, e)

\* BrowserTool.extract_content
ExtractContent(c, r, url, wait_for_element, e) ==
  ExtractAfterNavigate(IF Truthy(url)
                       THEN Navigate(c, r, url, wait_for_element, DefaultWaitTime, e)
                       ELSE Outcome(c, NoExc, None, <<>>),
                       r, e)

\* summarize without its `if not self.llm` test: the model is invoked at once
SummarizeNoCheck(c, r, text, max_tokens, e) ==
  IF c.llm /\ e.llmOk THEN Outcome(c, NoExc, "summary", <<"summarize", "llm">>)
  ELSE Outcome(c, Raise("llm call failed", ""), None, <<"summarize", "llm">>)

\* summarize preceded by `await self._setup_browser()`, like the other methods
SummarizeOn(s, e) ==
  IF s.exc # NoExc THEN Outcome(s.c, s.exc, None, <<"summarize">> \o s.tr)
  ELSE IF ~s.c.llm
  THEN Outcome(s.c, Raise("LLM not configured. Set LLM environment variable.", ""), None,
               <<"summarize">> \o s.tr)
  ELSE IF e.llmOk THEN Outcome(s.c, NoExc, "summary", (<<"summarize">> \o s.tr) \o <<"llm">>)
  ELSE Outcome(s.c, Raise("llm call failed", ""), None, (<<"summarize">> \o s.tr) \o <<"llm">>)

SummarizeWithSession(c, r, text, max_tokens, e) == SummarizeOn(SetupBrowser(c, r, e), e)

\* BrowserTool.summarize
Summarize(c, r, text, max_tokens, e) ==
  IF ~c.llm
  THEN Outcome(c, Raise("LLM not configured. Set LLM environment variable.", ""), None,
               <<"summarize">>)
  ELSE IF e.llmOk THEN Outcome(c, NoExc, "summary", <<"summarize", "llm">>)
  ELSE Outcome(c, Raise("llm call failed", ""), None, <<"summarize", "llm">>)

\* ------------------------------------------------------------ the HTTP layer
\* One request: the endpoint and the fields of its pydantic model (a field the
\* endpoint's model does not have is NoneStr / None).
Request(endpoint, action, query, url, text, max_results, wait_for_element) ==
  [endpoint |-> endpoint, action |-> action, query |-> query, url |-> url,
   text |-> text, max_results |-> max_results, max_tokens |-> IntOpt(DefaultMaxTokens),
   wait_for_element |-> wait_for_element, wait_time |-> DefaultWaitTime]

Body(kind, results, text) == [kind |-> kind, results |-> results, text |-> text]
NoBody == Body("none", <<>>, "")

\* a handler's outcome: the value it returned, or the HTTPException it raised
Returned(o, body) == Outcome(o.c, NoExc, body, o.tr)
Raised(o, exc) == Outcome(o.c, exc, NoBody, o.tr)

\* lines 62-63 (and 74-75, 86-87, 98-99): except Exception as e: raise HTTPException(500, str(e))
Wrap500(o, body) ==
  IF o.exc # NoExc THEN Raised(o, HTTPException(500, o.exc.detail, o.exc.arg))
  ELSE Returned(o, body)

\* the payloads the endpoints return for the outcome o of the method they call
ResultsPayload(kind, o) == Body(kind, IF o.exc = NoExc THEN o.val ELSE <<>>, "")
TextPayload(kind, o) == Body(kind, <<>>, IF o.exc = NoExc THEN o.val ELSE "")

SearchReturn(o) == Wrap500(o, ResultsPayload("results", o))
NavigateReturn(o) == Wrap500(o, Body("status", <<>>, "success"))
ExtractReturn(o) == Wrap500(o, TextPayload("content", o))
SummarizeReturn(o) == Wrap500(o, TextPayload("summary", o))

\* POST /web_search
WebSearchHandler(c, r, request, e) ==
  SearchReturn(WebSearch(c, r, request.query, request.max_results[1], e))

\* POST /navigate
NavigateHandler(c, r, request, e) ==
  NavigateReturn(Navigate(c, r, request.url, request.wait_for_element, request.wait_time, e))

\* POST /extract_content
ExtractContentHandler(c, r, request, e) ==
  ExtractReturn(ExtractContent(c, r, request.url, request.wait_for_element, e))

\* POST /summarize
SummarizeHandler(c, r, request, e) ==
  SummarizeReturn(Summarize(c, r, request.text, request.max_tokens[1], e))

\* POST /crawl
CrawlHandler(c, r, request, e) ==
  Outcome(c, NoExc, Body("status", <<>>, "crawling started"), <<>>)

\* the try block of browser_tool with the catch-all handler alone
ReraiseWrapAll(o) ==
  IF o.exc # NoExc THEN Raised(o, HTTPException(500, o.exc.detail, o.exc.arg))
  ELSE Returned(o, o.val)

\* lines 146-149: except HTTPException: raise / except Exception as e: raise HTTPException(500, ...)
Reraise(o) ==
  IF o.exc.type = "HTTPException" THEN Raised(o, o.exc)
  ELSE Wrap500(o, o.val)

\* lines 126, 132, 138: the payload of an action, or the exception of its method
Payload(o, body) == Outcome(o.c, o.exc, IF o.exc = NoExc THEN body ELSE NoBody, o.tr)
SearchPayload(o) == Payload(o, ResultsPayload("search", o))
GetPagePayload(o) == Payload(o, TextPayload("get_page", o))
SummarizePayload(o) == Payload(o, TextPayload("summarize", o))

\* lines 124, 130, 136, 141: raise HTTPException(status_code=400, ...)
Reject(c, detail, arg) == Outcome(c, HTTPException(400, detail, arg), NoBody, <<>>)

\* the dispatcher with the browser prepared before the action is examined
SetupFirst(s, bad, action) ==
  IF s.exc # NoExc THEN Outcome(s.c, s.exc, NoBody, s.tr)
  ELSE IF bad THEN Outcome(s.c, HTTPException(400, "rejected", ""), NoBody, s.tr)
  ELSE Outcome(s.c, NoExc, Body(action, <<>>, ""), s.tr)

DispatchActionSetupFirst(c, r, request, e) ==
  SetupFirst(SetupBrowser(c, r, e),
             \/ request.action \notin {"search", "get_page", "summarize"}
             \/ request.action = "search" /\ ~Truthy(request.query)
             \/ request.action = "get_page" /\ ~Truthy(request.url)
             \/ request.action = "summarize" /\ ~Truthy(request.text),
             request.action)

\* lines 121-144: the try block of browser_tool
DispatchAction(c, r, request, e) ==
  IF request.action = "search"
  THEN IF ~Truthy(request.query)
       THEN Reject(c, "'query' is required for 'search' action", "")
       ELSE SearchPayload(WebSearch(c, r, request.query,
                                    OrDefault(request.max_results, DefaultMaxResults), e))
  ELSE IF request.action = "get_page"
  THEN IF ~Truthy(request.url)
       THEN Reject(c, "'url' is required for 'get_page' action", "")
       ELSE GetPagePayload(ExtractContent(c, r, request.url, NoneStr, e))
  ELSE IF request.action = "summarize"
  THEN IF ~Truthy(request.text)
       THEN Reject(c, "'text' is required for 'summarize' action", "")
       ELSE SummarizePayload(Summarize(c, r, request.text,
                                       OrDefault(request.max_tokens, DefaultMaxTokens), e))
  ELSE Reject(c, "Invalid action", request.action)

\* POST /browser_tool
BrowserToolHandler(c, r, request, e) == Reraise(DispatchAction(c, r, request, e))

\* the route table
Handler(c, r, request, e) ==
  CASE request.endpoint = "/web_search" -> WebSearchHandler(c, r, request, e)
    [] request.endpoint = "/navigate" -> NavigateHandler(c, r, request, e)
    [] request.endpoint = "/extract_content" -> ExtractContentHandler(c, r, request, e)
    [] request.endpoint = "/summarize" -> SummarizeHandler(c, r, request, e)
    [] request.endpoint = "/crawl" -> CrawlHandler(c, r, request, e)
    [] request.endpoint = "/browser_tool" -> BrowserToolHandler(c, r, request, e)

\* the response FastAPI sends for a handler's outcome
Response(o) ==
  IF o.exc = NoExc THEN [status |-> 200, detail |-> "", arg |-> "", body |-> o.val]
  ELSE [status |-> o.exc.status, detail |-> o.exc.detail, arg |-> o.exc.arg, body |-> NoBody]

NoResponse == [status |-> 0, detail |-> "", arg |-> "", body |-> NoBody]

\* os.getenv("LLM") and os.path.exists(model_path), lines 20-24
LlmPaths == {NoneStr, "/models/missing.gguf", "/models/llm.gguf"}
PathExists(path) == path = "/models/llm.gguf"
LlmLoaded(model_path) == Truthy(model_path) /\ PathExists(model_path)

\* get_browser_tool yielding one module-level BrowserTool to every request
GetBrowserToolShared(r, model_path) == BrowserToolInit(1, LlmLoaded(model_path))

\* get_browser_tool up to its yield: browser = BrowserTool(); the object made
\* for request r is object r of the heap
GetBrowserTool(r, model_path) == BrowserToolInit(r, LlmLoaded(model_path))

\* get_browser_tool with close() after the yield but outside a finally block
GetBrowserToolExitNoFinally(c, r, h) ==
  IF h.status = 200 THEN Close(c, r) ELSE Outcome(c, NoExc, None, <<>>)

\* get_browser_tool after its yield: finally: await browser.close(), whatever
\* the handler's outcome h was
GetBrowserToolExit(c, r, h) == Close(c, r)

\* ------------------------------------------------------------------- inputs
DefaultSetup == SetupEnv(TRUE, TRUE, TRUE)

\* answers of the search service in Spec: a transport error, a 404, and three
\* ranked results the second of which has an empty title
HttpSvcAnswers ==
  { SvcAnswer("raise", 0, "ok", FALSE, "bad", <<>>),
    SvcAnswer("resp", 404, "ok", FALSE, "bad", <<>>),
    SvcOk(<<ResultObj("a", "http://a", "about a"),
            ResultObj("", "http://c", "no title"),
            ResultObj("b", "http://b", NoKey)>>) }

HttpMaxResults == { IntOpt(0), IntOpt(MaxResults - 1) }

Requests ==
  { Request("/web_search", NoneStr, "q", NoneStr, NoneStr, m, NoneStr) : m \in HttpMaxResults }
  \cup { Request("/navigate", NoneStr, NoneStr, "http://u", NoneStr, None, w) :
           w \in {NoneStr, "#main"} }
  \cup { Request("/extract_content", NoneStr, NoneStr, u, NoneStr, None, w) :
           u \in {NoneStr, "http://u"}, w \in {NoneStr, "#main"} }
  \cup { Request("/summarize", NoneStr, NoneStr, NoneStr, "some text", None, NoneStr),
         Request("/crawl", NoneStr, NoneStr, "http://u", NoneStr, None, NoneStr) }
  \cup { Request("/browser_tool", "search", q, NoneStr, NoneStr, m, NoneStr) :
           q \in {NoneStr, "", "q"}, m \in HttpMaxResults \cup {None} }
  \cup { Request("/browser_tool", "get_page", NoneStr, u, NoneStr, None, NoneStr) :
           u \in {NoneStr, "http://u"} }
  \cup { Request("/browser_tool", "summarize", NoneStr, NoneStr, t, None, NoneStr) :
           t \in {NoneStr, "", "some text"} }
  \cup { Request("/browser_tool", a, "q", "http://u", "some text", None, NoneStr) :
           a \in {"crawl", "Search"} }

\* Request 1 is drawn from all of Requests; the requests in flight next to it
\* are drawn from these: a search, a navigation, a rejected dispatch, a summary
ConcurrentRequests ==
  { Request("/web_search", NoneStr, "q", NoneStr, NoneStr, IntOpt(MaxResults - 1), NoneStr),
    Request("/navigate", NoneStr, NoneStr, "http://u", NoneStr, None, "#main"),
    Request("/browser_tool", "search", NoneStr, NoneStr, NoneStr, None, NoneStr),
    Request("/browser_tool", "summarize", NoneStr, NoneStr, "some text", None, NoneStr) }

RequestsOf(r) == IF r = 1 THEN Requests ELSE ConcurrentRequests

NoRequest == Request("", NoneStr, NoneStr, NoneStr, NoneStr, None, NoneStr)

\* what the environment can do during the handler of one request
HandlerEnvs(request) ==
  IF request.endpoint = "/web_search" \/ request.action = "search"
  THEN { Env(s, svc, TRUE, TRUE, TRUE, TRUE) : s \in SetupEnvs, svc \in HttpSvcAnswers }
  ELSE IF request.endpoint \in {"/navigate", "/extract_content"} \/ request.action = "get_page"
  THEN { Env(s, SvcNoResultsKey, g, w, k, TRUE) : s \in SetupEnvs, g \in BOOLEAN,
                                                w \in BOOLEAN, k \in BOOLEAN }
  ELSE { Env(DefaultSetup, SvcNoResultsKey, TRUE, TRUE, TRUE, l) : l \in BOOLEAN }

\* -------------------------------------------------------------------- state
VARIABLES
  llmPath,   \* the LLM environment variable of the process
  pc,        \* pc[r]: "idle", "handler", "finally" or "done"
  req,       \* req[r]: the request r carries
  tool,      \* tool[r]: the object get_browser_tool made for r (0: none yet)
  heap,      \* heap[o]: the BrowserTool object o
  resp,      \* resp[r]: the response of r
  calls,     \* calls[r]: the calls made on behalf of r, in order
  last       \* SpecTool: the last method call on the object

vars == <<llmPath, pc, req, tool, heap, resp, calls, last>>

NoObject == BrowserToolInit(0, FALSE)
\* what the page does during navigate / extract_content: whether page.goto(url)
\* succeeds, whether the awaited element appears within the wait window, and
\* whether page.content() succeeds
PageAnswer(goto, selector, content) == [goto |-> goto, selector |-> selector, content |-> content]
PageOk == PageAnswer(TRUE, TRUE, TRUE)

NoCall == [op |-> "none", max_results |-> None, svc |-> SvcNoResultsKey, wait_for_element |-> NoneStr,
           url |-> NoneStr, page |-> PageOk, text |-> NoneStr, max_tokens |-> None,
           before |-> NoObject, exc |-> NoExc, status |-> 0, val |-> None, tr |-> <<>>]

\* ----------------------------------------------------------- Spec: requests
Init ==
  /\ llmPath \in LlmPaths
  /\ pc = [r \in Reqs |-> "idle"]
  /\ req = [r \in Reqs |-> NoRequest]
  /\ tool = [r \in Reqs |-> 0]
  /\ heap = [o \in Reqs |-> NoObject]
  /\ resp = [r \in Reqs |-> NoResponse]
  /\ calls = [r \in Reqs |-> <<>>]
  /\ last = NoCall

\* a request arrives and FastAPI resolves Depends(get_browser_tool): lines 47-49
Enter(r) ==
  /\ pc[r] = "idle"
  /\ \E request \in RequestsOf(r), browser \in {GetBrowserTool(r, llmPath)} :
          /\ req' = [req EXCEPT ![r] = request]
          /\ tool' = [tool EXCEPT ![r] = browser.id]
          /\ heap' = [heap EXCEPT ![browser.id] = browser]
          /\ calls' = [calls EXCEPT ![r] = <<"BrowserTool">>]
  /\ pc' = [pc EXCEPT ![r] = "handler"]
  /\ UNCHANGED <<llmPath, resp, last>>

\* the endpoint function runs with the yielded object
Endpoint(r) ==
  /\ pc[r] = "handler"
  /\ \E e \in HandlerEnvs(req[r]) :
       \E h \in {Handler(heap[tool[r]], r, req[r], e)} :
          /\ heap' = [heap EXCEPT ![tool[r]] = h.c]
          /\ resp' = [resp EXCEPT ![r] = Response(h)]
          /\ calls' = [calls EXCEPT ![r] = @ \o h.tr]
  /\ pc' = [pc EXCEPT ![r] = "finally"]
  /\ UNCHANGED <<llmPath, req, tool, last>>

\* the dependency is resumed after the handler: lines 50-51
Exit(r) ==
  /\ pc[r] = "finally"
  /\ \E x \in {GetBrowserToolExit(heap[tool[r]], r, resp[r])} :
        /\ heap' = [heap EXCEPT ![tool[r]] = x.c]
        /\ calls' = [calls EXCEPT ![r] = @ \o x.tr]
  /\ pc' = [pc EXCEPT ![r] = "done"]
  /\ UNCHANGED <<llmPath, req, tool, resp, last>>

Next == \E r \in Reqs : Enter(r) \/ Endpoint(r) \/ Exit(r)

Spec == Init /\ [][Next]_vars

\* ------------------------------------------- SpecTool: one BrowserTool object
\* The object is heap[Caller], made by BrowserTool(); its methods are called
\* one after the other (section 5: operations on one session are sequential).
\* last records the latest call: its arguments, the object before it, and its
\* outcome.
Caller == 1

MaxResultsArgs == (0 - 1) .. MaxResults

Selectors == {NoneStr, "", "#main"}

Called(op, m, svc, w, o) ==
  [NoCall EXCEPT !.op = op, !.max_results = m, !.svc = svc, !.wait_for_element = w,
                 !.before = heap[Caller], !.exc = o.exc, !.val = o.val, !.tr = o.tr]

InitTool ==
  /\ llmPath \in LlmPaths
  /\ pc = [r \in Reqs |-> "idle"]
  /\ req = [r \in Reqs |-> NoRequest]
  /\ tool = [r \in Reqs |-> 0]
  /\ heap = [o \in Reqs |-> IF o = Caller THEN BrowserToolInit(o, LlmLoaded(llmPath)) ELSE NoObject]
  /\ resp = [r \in Reqs |-> NoResponse]
  /\ calls = [r \in Reqs |-> <<>>]
  /\ last = NoCall

Apply(call, o) ==
  /\ heap' = [heap EXCEPT ![Caller] = o.c]
  /\ last' = call
  /\ UNCHANGED <<llmPath, pc, req, tool, resp, calls>>

CallSetupBrowser ==
  \E s \in SetupEnvs :
    \E o \in {SetupBrowser(heap[Caller], Caller, s)} :
       Apply(Called("_setup_browser", None, SvcNoResultsKey, NoneStr, o), o)

CallWebSearch ==
  \E m \in MaxResultsArgs, s \in SetupEnvs, svc \in HttpSvcAnswers :
    \E o \in {WebSearch(heap[Caller], Caller, "q", m, Env(s, svc, TRUE, TRUE, TRUE, TRUE))} :
       Apply(Called("web_search", IntOpt(m), svc, NoneStr, o), o)

CallNavigate ==
  \E w \in Selectors, s \in SetupEnvs, g \in BOOLEAN, f \in BOOLEAN :
    \E o \in {Navigate(heap[Caller], Caller, "http://u", w, DefaultWaitTime,
                      Env(s, SvcNoResultsKey, g, f, TRUE, TRUE))} :
       Apply(Called("navigate", None, SvcNoResultsKey, w, o), o)

CallExtractContent ==
  \E u \in {NoneStr, "http://u"}, w \in Selectors, s \in SetupEnvs,
     g \in BOOLEAN, f \in BOOLEAN, k \in BOOLEAN :
    \E o \in {ExtractContent(heap[Caller], Caller, u, w, Env(s, SvcNoResultsKey, g, f, k, TRUE))} :
       Apply(Called("extract_content", None, SvcNoResultsKey, IF Truthy(u) THEN w ELSE NoneStr, o), o)

Texts == {"", "some text"}
MaxTokensArgs == {0, DefaultMaxTokens}

CallSummarize ==
  \E text \in Texts, max_tokens \in MaxTokensArgs, l \in BOOLEAN :
    \E o \in {Summarize(heap[Caller], Caller, text, max_tokens,
                       Env(DefaultSetup, SvcNoResultsKey, TRUE, TRUE, TRUE, l))} :
       Apply([Called("summarize", None, SvcNoResultsKey, NoneStr, o)
                EXCEPT !.text = text, !.max_tokens = IntOpt(max_tokens)], o)

CallClose ==
  \E o \in {Close(heap[Caller], Caller)} :
     Apply(Called("close", None, SvcNoResultsKey, NoneStr, o), o)

NextTool ==
  \/ CallSetupBrowser
  \/ CallWebSearch
  \/ CallNavigate
  \/ CallExtractContent
  \/ CallSummarize
  \/ CallClose

SpecTool == InitTool /\ [][NextTool]_vars

\* ------------------------------------- SpecSearch: one search, every answer
\* A search with max_results and the service's answer drawn from the full
\* sets, made on a new object by a direct call of web_search, through
\* POST /web_search, or through POST /browser_tool with action "search".
SvcAnswers ==
  SvcFailures \cup {SvcNoResultsKey} \cup { SvcOk(rs) : rs \in SeqsUpTo(ResultObjs, MaxLen) }

Pending(m, svc) == [NoCall EXCEPT !.op = "pending", !.max_results = m, !.svc = svc]

InitSearch ==
  /\ llmPath \in {NoneStr}
  /\ pc = [r \in Reqs |-> "idle"]
  /\ req = [r \in Reqs |-> NoRequest]
  /\ tool = [r \in Reqs |-> 0]
  /\ heap = [o \in Reqs |-> IF o = Caller THEN BrowserToolInit(o, LlmLoaded(llmPath)) ELSE NoObject]
  /\ resp = [r \in Reqs |-> NoResponse]
  /\ calls = [r \in Reqs |-> <<>>]
  /\ last \in { Pending(IntOpt(m), svc) : m \in MaxResultsArgs, svc \in SvcAnswers }

SearchEnv(s) == Env(s, last.svc, TRUE, TRUE, TRUE, TRUE)

SearchRequest(endpoint, action) ==
  Request(endpoint, action, "q", NoneStr, NoneStr, last.max_results, NoneStr)

\* the caller of the object calls web_search itself
DirectSearch ==
  /\ last.op = "pending"
  /\ \E s \in SetupEnvs :
       \E o \in {WebSearch(heap[Caller], Caller, "q", last.max_results[1], SearchEnv(s))} :
          Apply(Called("web_search", last.max_results, last.svc, NoneStr, o), o)

Served(endpoint, h) ==
  [last EXCEPT !.op = endpoint, !.before = heap[Caller], !.exc = h.exc,
               !.status = Response(h).status, !.val = h.val.results, !.tr = h.tr]

\* POST /web_search
EndpointSearch ==
  /\ last.op = "pending"
  /\ \E s \in SetupEnvs :
       \E h \in {Handler(heap[Caller], Caller, SearchRequest("/web_search", NoneStr), SearchEnv(s))} :
          Apply(Served("/web_search", h), h)

\* POST /browser_tool, action "search"
DispatchSearch ==
  /\ last.op = "pending"
  /\ \E s \in SetupEnvs :
       \E h \in {Handler(heap[Caller], Caller, SearchRequest("/browser_tool", "search"), SearchEnv(s))} :
          Apply(Served("/browser_tool", h), h)

\* the object is closed after the search
CloseAfterSearch ==
  /\ last.op \in {"web_search", "/web_search", "/browser_tool"}
  /\ \E o \in {Close(heap[Caller], Caller)} :
        Apply([last EXCEPT !.op = "closed"], o)

NextSearch == DirectSearch \/ EndpointSearch \/ DispatchSearch \/ CloseAfterSearch

SpecSearch == InitSearch /\ [][NextSearch]_vars

\* ----------------------------------- SpecPage: one navigation, every page
\* One navigate or extract_content with the url, the selector and the page's
\* behaviour drawn from the full sets, made on a new object by a direct call
\* or through POST /navigate or POST /extract_content.
Urls == {NoneStr, "http://u"}
PageAnswers == { PageAnswer(g, f, k) : g \in BOOLEAN, f \in BOOLEAN, k \in BOOLEAN }

PendingPage(u, w, p) ==
  [NoCall EXCEPT !.op = "pending", !.url = u, !.wait_for_element = w, !.page = p]

InitPage ==
  /\ llmPath \in {NoneStr}
  /\ pc = [r \in Reqs |-> "idle"]
  /\ req = [r \in Reqs |-> NoRequest]
  /\ tool = [r \in Reqs |-> 0]
  /\ heap = [o \in Reqs |-> IF o = Caller THEN BrowserToolInit(o, LlmLoaded(llmPath)) ELSE NoObject]
  /\ resp = [r \in Reqs |-> NoResponse]
  /\ calls = [r \in Reqs |-> <<>>]
  /\ last \in { PendingPage(u, w, p) : u \in Urls, w \in Selectors, p \in PageAnswers }

PageEnv(s) ==
  Env(s, SvcNoResultsKey, last.page.goto, last.page.selector, last.page.content, TRUE)

PageRequest(endpoint) ==
  Request(endpoint, NoneStr, NoneStr, last.url, NoneStr, None, last.wait_for_element)

Performed(op, o) ==
  [last EXCEPT !.op = op, !.before = heap[Caller], !.exc = o.exc, !.tr = o.tr]

ServedPage(endpoint, h) ==
  [last EXCEPT !.op = endpoint, !.before = heap[Caller], !.exc = h.exc,
               !.status = Response(h).status, !.tr = h.tr]

\* the caller of the object calls navigate itself
DirectNavigate ==
  /\ last.op = "pending" /\ Truthy(last.url)
  /\ \E s \in SetupEnvs :
       \E o \in {Navigate(heap[Caller], Caller, last.url, last.wait_for_element,
                          DefaultWaitTime, PageEnv(s))} :
          Apply(Performed("navigate", o), o)

\* the caller of the object calls extract_content itself
DirectExtract ==
  /\ last.op = "pending"
  /\ \E s \in SetupEnvs :
       \E o \in {ExtractContent(heap[Caller], Caller, last.url, last.wait_for_element,
                                PageEnv(s))} :
          Apply(Performed("extract_content", o), o)

\* POST /navigate (url is a required field)
EndpointNavigate ==
  /\ last.op = "pending" /\ Truthy(last.url)
  /\ \E s \in SetupEnvs :
       \E h \in {Handler(heap[Caller], Caller, PageRequest("/navigate"), PageEnv(s))} :
          Apply(ServedPage("/navigate", h), h)

\* POST /extract_content
EndpointExtract ==
  /\ last.op = "pending"
  /\ \E s \in SetupEnvs :
       \E h \in {Handler(heap[Caller], Caller, PageRequest("/extract_content"), PageEnv(s))} :
          Apply(ServedPage("/extract_content", h), h)

\* the object is closed after the call
CloseAfterPage ==
  /\ last.op \in {"navigate", "extract_content", "/navigate", "/extract_content"}
  /\ \E o \in {Close(heap[Caller], Caller)} :
        Apply([last EXCEPT !.op = "closed"], o)

NextPage ==
  \/ DirectNavigate
  \/ DirectExtract
  \/ EndpointNavigate
  \/ EndpointExtract
  \/ CloseAfterPage

SpecPage == InitPage /\ [][NextPage]_vars

\* ===================================================================== claims
Has(tr, x) == \E i \in DOMAIN tr : tr[i] = x
Count(tr, x) == Cardinality({ i \in DOMAIN tr : tr[i] = x })

Released(c) == c.drv # "running" /\ c.brw # "open" /\ c.pg # "open"

\* C1: once a request has finished, whatever the exit path of its handler
\* (a result, a 400, a 500, a _setup_browser that failed part-way), no driver
\* it started, browser it launched or page it opened is still unreleased.
C1_AllReleasedWhenDone ==
  \A r \in Reqs : pc[r] = "done" => Released(heap[tool[r]])

\* a request whose _setup_browser failed after the driver was started ended
\* with a 500 and the driver stopped
C1_Witness ==
  \E r \in Reqs :
    /\ pc[r] = "done" /\ resp[r].status = 500
    /\ heap[tool[r]].started = 1 /\ heap[tool[r]].launched = 0
    /\ heap[tool[r]].drv = "stopped"

\* C2: a request never ends without close() having been called on its
\* BrowserTool, after the handler's own calls, whether the handler returned
\* or raised.
C2_CloseAlwaysCalled ==
  \A r \in Reqs :
    pc[r] = "done" =>
      /\ Count(calls[r], "close") = 1
      /\ \A i \in DOMAIN calls[r] :
           calls[r][i] \in {"web_search", "navigate", "extract_content", "summarize", "goto"}
             => \E j \in DOMAIN calls[r] : j > i /\ calls[r][j] = "close"

\* a request whose handler raised (500) has ended, with close() called
C2_Witness ==
  \E r \in Reqs :
    pc[r] = "done" /\ resp[r].status = 500 /\ Has(calls[r], "navigate") /\ Has(calls[r], "close")

Rejected(request) ==
  /\ request.endpoint = "/browser_tool"
  /\ \/ request.action = "search" /\ request.query \in {NoneStr, ""}
     \/ request.action = "get_page" /\ request.url \in {NoneStr, ""}
     \/ request.action = "summarize" /\ request.text \in {NoneStr, ""}
     \/ request.action \notin {"search", "get_page", "summarize"}

\* C3 as stated: a /browser_tool request that fails validation or carries an
\* unknown action is answered before any BrowserTool is created for it.
C3_NoToolBeforeRejection ==
  \A r \in Reqs : Rejected(req[r]) /\ resp[r].status = 400 => tool[r] = 0

\* C3 amended: such a request is answered with its BrowserTool already
\* constructed by the dependency, but before that object has acquired any
\* handle: driver, browser and page are still None when the error is reported
\* and nothing was started, launched or opened.
C3_NoHandlesBeforeRejection ==
  \A r \in Reqs :
    Rejected(req[r]) /\ pc[r] \in {"finally", "done"} =>
      /\ tool[r] # 0 /\ calls[r][1] = "BrowserTool"
      /\ heap[tool[r]].playwright = None
      /\ heap[tool[r]].browser = None
      /\ heap[tool[r]].page = None
      /\ heap[tool[r]].started = 0 /\ heap[tool[r]].launched = 0 /\ heap[tool[r]].pages = 0

\* a search without a query was answered 400 while its object exists
C3_Witness ==
  \E r \in Reqs :
    /\ req[r].action = "search" /\ req[r].query = NoneStr
    /\ pc[r] = "finally" /\ resp[r].status = 400 /\ tool[r] = r

\* C4: the dispatcher answers 400, never 500 and never a success payload, to
\* "search" without query, "get_page" without url, "summarize" without text
\* and to every other action.
C4_RejectedIs400 ==
  \A r \in Reqs :
    Rejected(req[r]) /\ pc[r] \in {"finally", "done"} =>
      resp[r].status = 400 /\ resp[r].body = NoBody

\* an unknown action was answered 400
C4_Witness ==
  \E r \in Reqs :
    /\ req[r].endpoint = "/browser_tool" /\ req[r].action = "crawl"
    /\ pc[r] = "done" /\ resp[r].status = 400

\* ---------------------------------------------------------------- web_search
SearchOps == {"web_search", "/web_search", "/browser_tool"}
Min(a, b) == IF a < b THEN a ELSE b
NonEmpty(v) == v \notin {NoKey, Null, NoneStr, ""}
AnsweredList == last.svc.goto = "resp" /\ last.svc.status = 200 /\ last.svc.content = "ok"
                /\ last.svc.pre /\ last.svc.json = "list"
SetupReturned == heap[Caller].page # None

\* C5: for every max_results >= 0 and every answer of the search service,
\* web_search (called directly or through POST /web_search) returns at most
\* max_results records.
C5_AtMostMaxResults ==
  last.op \in {"web_search", "/web_search"} /\ last.max_results[1] >= 0
    => Len(last.val) <= last.max_results[1]

\* the service answered with more results than were asked for and the bound
\* was reached
C5_Witness ==
  /\ last.op = "web_search" /\ last.max_results[1] = 2
  /\ Len(last.svc.results) = 3 /\ Len(last.val) = 2

\* the record web_search emits for one result object of the service
Emitted(result) ==
  [title |-> result.title, url |-> result.url,
   snippet |-> IF result.content = NoKey THEN "" ELSE result.content]

\* C6 as stated: when the service answers n results and max_results = m >= 0,
\* web_search returns exactly the first min(n, m) of them, in order.
C6_ExactlyFirstMin ==
  last.op = "web_search" /\ SetupReturned /\ AnsweredList /\ last.max_results[1] >= 0
    => LET k == Min(Len(last.svc.results), last.max_results[1])
       IN /\ Len(last.val) = k
          /\ \A i \in 1 .. k : last.val[i] = Emitted(last.svc.results[i])

\* the positions, among the first min(n, m), of the results that have a
\* non-empty title and a non-empty url
KeptPositions ==
  { i \in 1 .. Min(Len(last.svc.results), last.max_results[1]) :
      NonEmpty(last.svc.results[i].title) /\ NonEmpty(last.svc.results[i].url) }

\* C6 amended: web_search returns, in the service's order, those of the first
\* min(n, m) results that have a non-empty title and url (so exactly the first
\* min(n, m) when all of them have both).
C6_FirstMinFilteredInOrder ==
  last.op = "web_search" /\ SetupReturned /\ AnsweredList /\ last.max_results[1] >= 0
    => /\ Len(last.val) = Cardinality(KeptPositions)
       /\ \A i \in KeptPositions :
            last.val[Cardinality({ j \in KeptPositions : j <= i })] = Emitted(last.svc.results[i])

\* three results, the first without a title, max_results = 2: the second
\* result alone is returned
C6_Witness ==
  /\ last.op = "web_search" /\ last.max_results[1] = 2
  /\ Len(last.svc.results) = 3
  /\ last.svc.results[1].title = "" /\ last.svc.results[2].title = "b"
  /\ last.svc.results[3].title = "a"
  /\ AnsweredList /\ SetupReturned
  /\ Len(last.val) = 1 /\ last.val[1].title = "b"

\* C7: every record web_search emits has a non-empty title and a non-empty
\* url, whatever the service answered.
C7_TitleAndUrlNonEmpty ==
  last.op \in SearchOps =>
    \A i \in DOMAIN last.val : NonEmpty(last.val[i].title) /\ NonEmpty(last.val[i].url)

\* a result with a null url was among those examined and was left out
C7_Witness ==
  /\ last.op = "web_search" /\ last.max_results[1] = 3 /\ AnsweredList /\ SetupReturned
  /\ Len(last.svc.results) = 2
  /\ last.svc.results[1].url = Null /\ last.svc.results[2].title = "a"
  /\ Len(last.val) = 1

\* C8: with the session ready, a transport error, a non-200 status, a missing
\* or an unparseable body makes web_search return the empty list: nothing is
\* raised, and the endpoints answer 200 with no results.
C8_FailureGivesEmptyList ==
  last.op \in SearchOps /\ SetupReturned /\ last.svc \in SvcFailures
    => /\ last.exc = NoExc
       /\ last.val = <<>>
       /\ last.status = IF last.op = "web_search" THEN 0 ELSE 200

\* POST /web_search on a ready session got a body that is not JSON and
\* answered 200
C8_Witness ==
  /\ last.op = "/web_search" /\ SetupReturned
  /\ last.svc.goto = "resp" /\ last.svc.status = 200 /\ last.svc.pre /\ last.svc.json = "bad"
  /\ last.status = 200 /\ last.val = <<>>

\* ------------------------------------------------------------------- session
Obj == heap[Caller]
AllNone(c) == c.playwright = None /\ c.browser = None /\ c.page = None
AllSet(c) == c.playwright # None /\ c.browser # None /\ c.page # None

\* C9 as stated: in every reachable state of a session the three handles are
\* all uninitialized or all initialized.
C9_AllOrNone == AllNone(Obj) \/ AllSet(Obj)

\* C9 amended: the handles are initialized in the order driver, browser, page
\* and never reset, so the page is set only if the browser is and the browser
\* only if the driver is; all three are set whenever _setup_browser returns
\* (directly or inside an operation), a _setup_browser that fails leaves a
\* proper prefix set, and close() leaves the attributes as they were.
C9_HandlesFormPrefix ==
  /\ Obj.page # None => Obj.browser # None
  /\ Obj.browser # None => Obj.playwright # None
  /\ last.op = "_setup_browser" /\ last.exc = NoExc => AllSet(Obj)
  /\ last.op = "_setup_browser" /\ last.exc # NoExc => ~AllSet(Obj)
  /\ Has(last.tr, "goto") \/ Has(last.tr, "content") => AllSet(Obj)
  /\ last.op = "close" =>
       /\ Obj.playwright = last.before.playwright
       /\ Obj.browser = last.before.browser
       /\ Obj.page = last.before.page

\* a _setup_browser that failed at the launch left the driver set and the
\* browser and page unset, and close() was then called
C9_Witness ==
  /\ last.op = "close"
  /\ Obj.playwright # None /\ Obj.browser = None /\ Obj.page = None
  /\ Obj.drv = "stopped"

AlreadyClosed(c) == c.brw = "closed" \/ c.drv = "stopped"
ReleaseCalls(tr) == Count(tr, "browser.close") + Count(tr, "playwright.stop")

\* C10: close() on a session that was never initialized issues no release
\* call, and a second or later close() issues no further browser-close or
\* driver-stop call and leaves the session as it was.
C10_CloseIdempotent ==
  last.op = "close" =>
    /\ AllNone(last.before) => ReleaseCalls(last.tr) = 0 /\ Obj = last.before
    /\ AlreadyClosed(last.before) => ReleaseCalls(last.tr) = 0 /\ Obj = last.before

SetupCalls(tr) == Count(tr, "start") + Count(tr, "launch") + Count(tr, "new_page")

\* C11: BrowserTool() launches nothing; whenever _setup_browser returns, alone
\* or inside web_search, navigate or extract_content, the three handles are
\* valid; over any sequence of calls on one session at most one driver is
\* started, one browser launched and one page created; and a call on a ready
\* session starts, launches and creates nothing.
C11_SetupOnFirstUseOnce ==
  /\ last.op = "none" =>
       /\ AllNone(Obj)
       /\ Obj.drv = "none" /\ Obj.brw = "none" /\ Obj.pg = "none"
       /\ Obj.started = 0 /\ Obj.launched = 0 /\ Obj.pages = 0
  /\ Has(last.tr, "_setup_browser") /\ last.exc = NoExc =>
       AllSet(Obj) /\ Obj.started = 1 /\ Obj.launched = 1 /\ Obj.pages = 1
  /\ Obj.started <= 1 /\ Obj.launched <= 1 /\ Obj.pages <= 1
  /\ AllSet(last.before) /\ last.op # "none" =>
       /\ SetupCalls(last.tr) = 0
       /\ Obj.playwright = last.before.playwright
       /\ Obj.browser = last.before.browser
       /\ Obj.page = last.before.page

\* extract_content with a url (two _setup_browser calls) ran on a session that
\* an earlier call had made ready
C11_Witness ==
  /\ last.op = "extract_content" /\ Truthy(last.wait_for_element)
  /\ AllSet(last.before) /\ last.before.brw = "open"
  /\ Count(last.tr, "_setup_browser") = 2 /\ last.exc = NoExc
  /\ Obj.started = 1 /\ Obj.launched = 1 /\ Obj.pages = 1

NotConfigured == "LLM not configured. Set LLM environment variable."
NoModel == llmPath = NoneStr \/ ~PathExists(llmPath)

\* C12: when LLM is unset or names no existing file, BrowserTool() still
\* succeeds (with llm = None), and every summarize call, whatever the text and
\* max_tokens, raises "LLM not configured" without invoking the model.
C12_SummarizeNeedsModel ==
  /\ NoModel => Obj.id = Caller /\ ~Obj.llm
  /\ last.op = "summarize" /\ NoModel =>
       /\ last.exc = Raise(NotConfigured, "")
       /\ ~Has(last.tr, "llm")
       /\ Obj = last.before

\* summarize of the empty text with max_tokens = 0 was refused on a tool
\* constructed with LLM naming a file that does not exist
C12_Witness ==
  /\ last.op = "summarize" /\ llmPath = "/models/missing.gguf"
  /\ last.text = "" /\ last.max_tokens = IntOpt(0)
  /\ last.exc.detail = NotConfigured

\* C13: concurrent requests never share a BrowserTool; the handles of an
\* object carry that object's identity and are used (set up, navigated, read,
\* closed) by its own request alone; and until a request's own close() runs,
\* nothing it acquired has been released.
C13_SessionsNotShared ==
  /\ \A r1, r2 \in Reqs : r1 # r2 /\ tool[r1] # 0 => tool[r1] # tool[r2]
  /\ \A r \in Reqs :
       tool[r] # 0 =>
         /\ heap[tool[r]].id = tool[r]
         /\ heap[tool[r]].users \subseteq {r}
         /\ heap[tool[r]].playwright \in {None, <<tool[r], "driver">>}
         /\ heap[tool[r]].browser \in {None, <<tool[r], "browser">>}
         /\ heap[tool[r]].page \in {None, <<tool[r], "page">>}
         /\ pc[r] \in {"handler", "finally"} =>
              /\ heap[tool[r]].drv \in {"none", "running"}
              /\ heap[tool[r]].brw \in {"none", "open"}
              /\ heap[tool[r]].pg \in {"none", "open"}

\* one request has closed its browser while another, whose handler has
\* returned, still holds its own open page
C13_Witness ==
  \E r1, r2 \in Reqs :
    /\ r1 # r2
    /\ pc[r1] = "done" /\ heap[tool[r1]].brw = "closed"
    /\ pc[r2] = "finally" /\ heap[tool[r2]].pg = "open" /\ heap[tool[r2]].drv = "running"

ElementNotFound == "Element not found on page"
PageOps == {"navigate", "extract_content", "/navigate", "/extract_content"}
Navigates == last.op \in {"navigate", "/navigate"} \/ Truthy(last.url)

\* C14: when the page loads and the wait_for_element selector does not appear
\* within the wait window, navigate raises the element-not-found error with
\* the selector in it, extract_content(url, wait_for_element) raises the same
\* error, and POST /navigate and POST /extract_content answer 500 with it;
\* without a wait_for_element no call raises that error.
C14_MissingElementIs500 ==
  last.op \in PageOps =>
    /\ Navigates /\ SetupReturned /\ last.page.goto
         /\ Truthy(last.wait_for_element) /\ ~last.page.selector
         => /\ last.exc.detail = ElementNotFound
            /\ last.exc.arg = last.wait_for_element
            /\ last.op \in {"navigate", "extract_content"} => last.exc.type = "Exception"
            /\ last.op \in {"/navigate", "/extract_content"} => last.status = 500
    /\ ~Truthy(last.wait_for_element) => last.exc.detail # ElementNotFound

\* POST /extract_content with a url and "#main" answered 500 naming "#main"
C14_Witness ==
  /\ last.op = "/extract_content" /\ last.url = "http://u"
  /\ last.wait_for_element = "#main" /\ ~last.page.selector
  /\ last.status = 500 /\ last.exc.detail = ElementNotFound /\ last.exc.arg = "#main"

AutomationCalls ==
  {"_setup_browser", "start", "launch", "new_page", "web_search", "navigate",
   "extract_content", "goto", "wait_for_selector", "content"}

\* C15: in a /browser_tool request answered 400, from its arrival to its end,
\* no call of _setup_browser, no driver start, no browser launch, no page
\* creation and no navigation is issued: the only calls are BrowserTool() and
\* the final close(), which finds nothing to release.
C15_NoWorkWhenRejected ==
  \A r \in Reqs :
    req[r].endpoint = "/browser_tool" /\ resp[r].status = 400 =>
      /\ \A i \in DOMAIN calls[r] : calls[r][i] \notin AutomationCalls
      /\ ReleaseCalls(calls[r]) = 0
      /\ heap[tool[r]].users = {}

\* a summarize action with an empty text ran to its end with two calls only
C15_Witness ==
  \E r \in Reqs :
    /\ req[r].action = "summarize" /\ req[r].text = ""
    /\ pc[r] = "done" /\ resp[r].status = 400
    /\ calls[r] = <<"BrowserTool", "close">>

\* C16: for POST /browser_tool with action "search" and max_results = m >= 0,
\* m = 0 included, the response carries at most m results.
C16_DispatcherKeepsBound ==
  last.op = "/browser_tool" /\ last.max_results[1] >= 0
    => Len(last.val) <= last.max_results[1]

\* C17: when the driver start, the browser launch or the page creation fails
\* inside web_search, each step is attempted once, no search is issued, the
\* failure is raised to the caller and both endpoints answer 500; so a search
\* that returns a list (empty or not) ran on a ready session.
C17_SetupFailurePropagates ==
  last.op \in SearchOps =>
    /\ ~SetupReturned =>
         /\ last.exc # NoExc
         /\ last.exc.detail \in {"driver start failed", "browser launch failed", "new_page failed"}
         /\ last.op = "web_search" => last.exc.type = "Exception"
         /\ last.op # "web_search" => last.status = 500
         /\ Count(last.tr, "_setup_browser") = 1
         /\ Count(last.tr, "start") <= 1 /\ Count(last.tr, "launch") <= 1
         /\ Count(last.tr, "new_page") <= 1
         /\ ~Has(last.tr, "goto")
    /\ last.exc = NoExc => SetupReturned

\* POST /browser_tool, action "search": the browser launch failed and the
\* answer was a 500
C17_Witness ==
  /\ last.op = "/browser_tool"
  /\ Obj.playwright # None /\ Obj.browser = None
  /\ last.status = 500 /\ last.exc.detail = "browser launch failed"

SummarizeRequest(request) ==
  \/ request.endpoint = "/summarize"
  \/ request.endpoint = "/browser_tool" /\ request.action = "summarize"
       /\ Truthy(request.text)

\* C19: at every point of a summarize request, made through POST /summarize
\* or through the dispatcher, answered 200 or 500, the driver, browser and
\* page handles of its BrowserTool are None, nothing was started or launched,
\* and its close() issues no release call.
C19_SummarizeNeedsNoSession ==
  \A r \in Reqs :
    SummarizeRequest(req[r]) =>
      /\ AllNone(heap[tool[r]])
      /\ heap[tool[r]].started = 0 /\ heap[tool[r]].launched = 0 /\ heap[tool[r]].pages = 0
      /\ SetupCalls(calls[r]) = 0 /\ ~Has(calls[r], "_setup_browser")
      /\ ReleaseCalls(calls[r]) = 0
      /\ pc[r] \in {"finally", "done"} => resp[r].status \in {200, 500}
      /\ pc[r] = "done" => calls[r][Len(calls[r])] = "close"

\* a dispatcher summarize was answered 200 and has ended, its model invoked
C19_Witness ==
  \E r \in Reqs :
    /\ req[r].endpoint = "/browser_tool" /\ req[r].action = "summarize"
    /\ pc[r] = "done" /\ resp[r].status = 200
    /\ calls[r] = <<"BrowserTool", "summarize", "llm", "close">>

====
